---------------------------- MODULE Spec2Model ----------------------------
(***************************************************************************)
(* TstzRange (src/src/lib.rs): a PostgreSQL tstzrange value over           *)
(* DateTime<Utc> bounds, its text codec (Display / from_string), the       *)
(* membership test and the sea-orm Value conversions.                      *)
(*                                                                         *)
(* Text is a sequence of one-character strings.  An instant is the         *)
(* NaiveDateTime chrono stores for a DateTime<Utc>: the day number (days   *)
(* since 1970-01-01), the second of the day and the nanosecond fraction    *)
(* (1_000_000_000 and above is a leap second, which chrono's constructors  *)
(* allow at second 59 of a minute only).                                   *)
(***************************************************************************)
EXTENDS Integers, Sequences, FiniteSets, TLC

(***************************************************************************)
(* Characters and digits                                                   *)
(***************************************************************************)
DigitChars == <<"0", "1", "2", "3", "4", "5", "6", "7", "8", "9">>

IsDigit(c) == \E i \in 1..10 : DigitChars[i] = c

DigitVal(c) == (CHOOSE i \in 1..10 : DigitChars[i] = c) - 1

\* char::is_whitespace, on the characters of the model's alphabet
IsSpace(c) == c = " "

Pow10(n) == IF n = 0 THEN 1 ELSE IF n = 1 THEN 10 ELSE IF n = 2 THEN 100
            ELSE IF n = 3 THEN 1000 ELSE IF n = 4 THEN 10000
            ELSE IF n = 5 THEN 100000 ELSE IF n = 6 THEN 1000000
            ELSE IF n = 7 THEN 10000000 ELSE IF n = 8 THEN 100000000
            ELSE 1000000000

\* the decimal digits of n >= 0, zero-padded on the left to at least w digits
RECURSIVE PadNum(_, _)
PadNum(n, w) ==
    IF n < 10 /\ w <= 1 THEN <<DigitChars[n + 1]>>
    ELSE PadNum(n \div 10, w - 1) \o <<DigitChars[(n % 10) + 1]>>

(***************************************************************************)
(* The proleptic Gregorian calendar of chrono::NaiveDate                   *)
(***************************************************************************)
IsLeapYear(y) == (y % 4 = 0) /\ ((y % 100 # 0) \/ (y % 400 = 0))

DaysInMonth(y, m) ==
    IF m = 2 THEN (IF IsLeapYear(y) THEN 29 ELSE 28)
    ELSE IF m \in {4, 6, 9, 11} THEN 30 ELSE 31

\* day number (1970-01-01 is 0) of the civil date y-m-d
DaysFromCivil(y, m, d) ==
    LET yy  == IF m <= 2 THEN y - 1 ELSE y
        era == yy \div 400
        yoe == yy - era * 400
        mp  == IF m > 2 THEN m - 3 ELSE m + 9
        doy == (153 * mp + 2) \div 5 + d - 1
        doe == yoe * 365 + yoe \div 4 - yoe \div 100 + doy
    IN  era * 146097 + doe - 719468

\* the civil date [y, m, d] of a day number
CivilFromDays(z0) ==
    LET z   == z0 + 719468
        era == z \div 146097
        doe == z - era * 146097
        yoe == (doe - doe \div 1460 + doe \div 36524 - doe \div 146096) \div 365
        doy == doe - (365 * yoe + yoe \div 4 - yoe \div 100)
        mp  == (5 * doy + 2) \div 153
        d   == doy - (153 * mp + 2) \div 5 + 1
        m   == IF mp < 10 THEN mp + 3 ELSE mp - 9
        y   == yoe + era * 400 + (IF m <= 2 THEN 1 ELSE 0)
    IN  [y |-> y, m |-> m, d |-> d]

(***************************************************************************)
(* chrono: DateTime<Utc>::to_rfc3339 (lib.rs:143-149)                      *)
(***************************************************************************)
\* the year: four digits inside 0..=9999, otherwise "{:+05}" (an explicit sign)
YearText(y) ==
    IF y >= 0 /\ y <= 9999 THEN PadNum(y, 4)
    ELSE IF y < 0 THEN <<"-">> \o PadNum(0 - y, 4)
    ELSE <<"+">> \o PadNum(y, 4)

\* SecondsFormat::AutoSi: no fraction, or 3, 6 or 9 digits, whichever is exact
FracText(nano) ==
    IF nano = 0 THEN <<>>
    ELSE IF nano % 1000000 = 0 THEN <<".">> \o PadNum(nano \div 1000000, 3)
    ELSE IF nano % 1000 = 0 THEN <<".">> \o PadNum(nano \div 1000, 6)
    ELSE <<".">> \o PadNum(nano, 9)

\* the offset of Utc, written with use_z = false
UtcOffsetText == <<"+", "0", "0", ":", "0", "0">>

\* the date of a day number, written year-month-day
DateText(day) ==
    CHOOSE r \in
        { YearText(c.y) \o <<"-">> \o PadNum(c.m, 2) \o <<"-">> \o PadNum(c.d, 2)
          : c \in {CivilFromDays(day)} } : TRUE

to_rfc3339(dt) ==
    LET leap == dt.frac >= 1000000000
        sec  == (dt.secs % 60) + (IF leap THEN 1 ELSE 0)
        nano == IF leap THEN dt.frac - 1000000000 ELSE dt.frac
    IN  DateText(dt.day)
        \o <<"T">> \o PadNum(dt.secs \div 3600, 2)
        \o <<":">> \o PadNum((dt.secs \div 60) % 60, 2)
        \o <<":">> \o PadNum(sec, 2)
        \o FracText(nano) \o UtcOffsetText

(***************************************************************************)
(* chrono: <DateTime<Utc> as FromStr>::from_str (lib.rs:29), the relaxed   *)
(* RFC 3339 parser.  A scan works on the text s from position p (1-based). *)
(*                                                                         *)
(* CHOOSE r \in {F(x) : x \in {e}} : TRUE is LET x == e IN F(x) with e     *)
(* evaluated once, whatever the number of uses of x in F(x).               *)
(***************************************************************************)
ScanFail == [ok |-> FALSE, pos |-> 0, val |-> 0]

\* str::trim_start from position p: the position of the first non-blank
RECURSIVE SkipSpaces(_, _)
SkipSpaces(s, p) ==
    IF p <= Len(s) /\ IsSpace(s[p]) THEN SkipSpaces(s, p + 1) ELSE p

\* the number of digits at position p, counted up to max
RECURSIVE CountDigits(_, _, _)
CountDigits(s, p, max) ==
    IF max > 0 /\ p <= Len(s) /\ IsDigit(s[p])
    THEN 1 + CountDigits(s, p + 1, max - 1) ELSE 0

\* the value of the k digits at position p
RECURSIVE DigitsValue(_, _, _)
DigitsValue(s, p, k) ==
    IF k = 0 THEN 0
    ELSE DigitsValue(s, p, k - 1) * 10 + DigitVal(s[p + k - 1])

\* scan::number(s, min, max): between min and max digits.  More than nine
\* digits only occur for a signed year, which is then out of NaiveDate's range
ScanNumber(s, p, min, max) ==
    CHOOSE r \in
        { IF k < min \/ k > 9 THEN ScanFail
          ELSE [ok |-> TRUE, pos |-> p + k, val |-> DigitsValue(s, p, k)]
          : k \in {CountDigits(s, p, max)} } : TRUE

\* Item::Numeric: leading blanks are skipped; only the year is signed, and a
\* signed year is not limited to four digits
ScanNumeric(s, p0, width, signed) ==
    CHOOSE r \in
        { IF signed /\ p <= Len(s) /\ s[p] = "-"
          THEN CHOOSE n \in { IF m.ok THEN [m EXCEPT !.val = 0 - m.val] ELSE ScanFail
                              : m \in {ScanNumber(s, p + 1, 1, 10)} } : TRUE
          ELSE IF signed /\ p <= Len(s) /\ s[p] = "+"
          THEN ScanNumber(s, p + 1, 1, 10)
          ELSE ScanNumber(s, p, 1, width)
          : p \in {SkipSpaces(s, p0)} } : TRUE

\* Fixed::Nanosecond: an optional "." and digits; digits after the ninth are
\* dropped
ScanNanosecond(s, p) ==
    IF p <= Len(s) /\ s[p] = "."
    THEN CHOOSE r \in
             { IF k = 0 THEN ScanFail
               ELSE [ok  |-> TRUE,
                     pos |-> p + 1 + k + CountDigits(s, p + 1 + k, Len(s)),
                     val |-> DigitsValue(s, p + 1, k) * Pow10(9 - k)]
               : k \in {CountDigits(s, p + 1, 9)} } : TRUE
    ELSE [ok |-> TRUE, pos |-> p, val |-> 0]

\* scan::colon_or_space
RECURSIVE SkipColons(_, _)
SkipColons(s, p) ==
    IF p <= Len(s) /\ (s[p] = ":" \/ IsSpace(s[p])) THEN SkipColons(s, p + 1) ELSE p

\* scan::timezone_offset(s, colon_or_space, allow_zulu = true,
\* allow_missing_minutes = false, ..): "Z", or a sign, two hour digits, and two
\* minute digits that may not be left out; val is the offset in seconds
ScanOffset(s, p) ==
    IF p > Len(s) THEN ScanFail
    ELSE IF s[p] \in {"Z", "z"} THEN [ok |-> TRUE, pos |-> p + 1, val |-> 0]
    ELSE IF s[p] \notin {"+", "-"} THEN ScanFail
    ELSE IF ~(p + 2 <= Len(s) /\ IsDigit(s[p + 1]) /\ IsDigit(s[p + 2])) THEN ScanFail
    ELSE CHOOSE r \in
             { IF ~(q + 1 <= Len(s) /\ IsDigit(s[q]) /\ IsDigit(s[q + 1])) THEN ScanFail
               ELSE IF DigitsValue(s, q, 2) > 59 THEN ScanFail
               ELSE [ok  |-> TRUE, pos |-> q + 2,
                     val |-> (IF s[p] = "-" THEN -1 ELSE 1)
                             * (DigitsValue(s, p + 1, 2) * 3600
                                + DigitsValue(s, q, 2) * 60)]
               : q \in {SkipColons(s, p + 3)} } : TRUE

\* the zone: "UTC" in any case, or an offset
ScanZone(s, p0) ==
    CHOOSE r \in
        { IF p + 2 <= Len(s) /\ s[p] \in {"U", "u"} /\ s[p + 1] \in {"T", "t"}
             /\ s[p + 2] \in {"C", "c"}
          THEN [ok |-> TRUE, pos |-> p + 3, val |-> 0]
          ELSE ScanOffset(s, p)
          : p \in {SkipSpaces(s, p0)} } : TRUE

\* format::Parsed, before any field is set
NewParsed ==
    [year |-> 0, month |-> 0, day |-> 0, hour |-> 0, minute |-> 0, second |-> 0,
     nanosecond |-> 0]

Numeric(field, width, signed) ==
    [item |-> "Numeric", field |-> field, width |-> width, signed |-> signed]
Space == [item |-> "Space"]
LiteralItem(c) == [item |-> "Literal", c |-> c]

\* parse_rfc3339_relaxed's DATE_ITEMS and TIME_ITEMS
DATE_ITEMS ==
    << Numeric("year", 4, TRUE), Space, LiteralItem("-"),
       Numeric("month", 2, FALSE), Space, LiteralItem("-"),
       Numeric("day", 2, FALSE) >>

TIME_ITEMS ==
    << Numeric("hour", 2, FALSE), Space, LiteralItem(":"),
       Numeric("minute", 2, FALSE), Space, LiteralItem(":"),
       Numeric("second", 2, FALSE), [item |-> "Nanosecond"], Space >>

ItemFail == [ok |-> FALSE, pos |-> 0, parsed |-> NewParsed]

\* one item of parse_internal: [ok, pos, parsed]
ParseItem(s, p, parsed, it) ==
    CASE it.item = "Space" ->
             [ok |-> TRUE, pos |-> SkipSpaces(s, p), parsed |-> parsed]
      [] it.item = "Literal" ->
             IF p <= Len(s) /\ s[p] = it.c
             THEN [ok |-> TRUE, pos |-> p + 1, parsed |-> parsed] ELSE ItemFail
      [] it.item = "Numeric" ->
             CHOOSE r \in
                 { IF n.ok THEN [ok |-> TRUE, pos |-> n.pos,
                                 parsed |-> [parsed EXCEPT ![it.field] = n.val]]
                   ELSE ItemFail
                   : n \in {ScanNumeric(s, p, it.width, it.signed)} } : TRUE
      [] it.item = "Nanosecond" ->
             CHOOSE r \in
                 { IF n.ok THEN [ok |-> TRUE, pos |-> n.pos,
                                 parsed |-> [parsed EXCEPT !.nanosecond = n.val]]
                   ELSE ItemFail
                   : n \in {ScanNanosecond(s, p)} } : TRUE

\* format::parse_internal: the items from the i-th on, one after the other
RECURSIVE parse_internal(_, _, _, _, _)
parse_internal(s, p, parsed, items, i) ==
    IF i > Len(items) THEN [ok |-> TRUE, pos |-> p, parsed |-> parsed]
    ELSE CHOOSE r \in
             { IF st.ok THEN parse_internal(s, st.pos, st.parsed, items, i + 1)
               ELSE ItemFail
               : st \in {ParseItem(s, p, parsed, items[i])} } : TRUE

ParseFail == [ok |-> FALSE]

\* Parsed::to_datetime: the fields are checked, the leap second 60 becomes
\* second 59 with a fraction of a second or more, and the local time is
\* moved to UTC
ResolveDateTime(f, off) ==
    IF ~(f.year >= -262143 /\ f.year <= 262142) \/ f.month < 1 \/ f.month > 12
       \/ f.day < 1
    THEN ParseFail
    ELSE IF f.day > DaysInMonth(f.year, f.month) \/ f.hour > 23 \/ f.minute > 59
            \/ f.second > 60
    THEN ParseFail
    ELSE IF off <= -86400 \/ off >= 86400 THEN ParseFail
    ELSE CHOOSE r \in
             { IF day < DaysFromCivil(-262143, 1, 1) \/ day > DaysFromCivil(262142, 12, 31)
               THEN ParseFail
               ELSE [ok |-> TRUE,
                     dt |-> [day  |-> day,
                             secs |-> (f.hour * 3600 + f.minute * 60
                                       + (IF f.second = 60 THEN 59 ELSE f.second)
                                       - off) % 86400,
                             frac |-> IF f.second = 60
                                      THEN f.nanosecond + 1000000000
                                      ELSE f.nanosecond]]
               : day \in { DaysFromCivil(f.year, f.month, f.day)
                           + ((f.hour * 3600 + f.minute * 60
                               + (IF f.second = 60 THEN 59 ELSE f.second) - off)
                              \div 86400) } } : TRUE

\* parse_rfc3339_relaxed, then nothing but blanks may follow the zone
parse_datetime(s) ==
    CHOOSE r \in
      { IF ~date.ok \/ date.pos > Len(s) THEN ParseFail
        \* the date and the time are separated by one of "T", "t", " "
        ELSE IF s[date.pos] \notin {"T", "t", " "} THEN ParseFail
        ELSE CHOOSE r2 \in
          { IF ~time.ok \/ time.pos > Len(s) THEN ParseFail
            ELSE CHOOSE r3 \in
              { IF ~zone.ok \/ SkipSpaces(s, zone.pos) <= Len(s) THEN ParseFail
                ELSE ResolveDateTime(time.parsed, zone.val)
                : zone \in {ScanZone(s, time.pos)} } : TRUE
            : time \in {parse_internal(s, date.pos + 1, date.parsed, TIME_ITEMS, 1)} }
          : TRUE
        : date \in {parse_internal(s, 1, NewParsed, DATE_ITEMS, 1)} } : TRUE

(***************************************************************************)
(* Values: std::ops::Bound, Option, Result, PgRange                        *)
(***************************************************************************)
Unbounded == [kind |-> "Unbounded"]
Included(v) == [kind |-> "Included", v |-> v]
Excluded(v) == [kind |-> "Excluded", v |-> v]

None == [some |-> FALSE]
Some(v) == [some |-> TRUE, v |-> v]

Ok(r) == [tag |-> "Ok", range |-> r]
\* Err(ValueTypeErr)
Err == [tag |-> "Err"]
\* the call does not return: the thread panics
Panic == [tag |-> "Panic"]

\* DateTime<Utc>'s ordering: that of the NaiveDateTime, date first, then time
Lt(a, b) ==
    \/ a.day < b.day
    \/ a.day = b.day /\ a.secs < b.secs
    \/ a.day = b.day /\ a.secs = b.secs /\ a.frac < b.frac

Le(a, b) == a = b \/ Lt(a, b)

(***************************************************************************)
(* str helpers                                                             *)
(***************************************************************************)
starts_with(s, pre) == Len(s) >= Len(pre) /\ SubSeq(s, 1, Len(pre)) = pre

ends_with(s, suf) ==
    Len(s) >= Len(suf) /\ SubSeq(s, Len(s) - Len(suf) + 1, Len(s)) = suf

\* strip_prefix(..).unwrap_or(s)
strip_prefix(s, pre) ==
    IF starts_with(s, pre) THEN SubSeq(s, Len(pre) + 1, Len(s)) ELSE s

\* strip_suffix(..).unwrap_or(s)
strip_suffix(s, suf) ==
    IF ends_with(s, suf) THEN SubSeq(s, 1, Len(s) - Len(suf)) ELSE s

\* s.matches(c).count()
matches_count(s, c) == Cardinality({i \in 1..Len(s) : s[i] = c})

\* s.split(c).collect(): the pieces between the separators, empty ones kept
RECURSIVE split(_, _)
split(s, c) ==
    IF \A i \in 1..Len(s) : s[i] # c THEN <<s>>
    ELSE LET k == CHOOSE i \in 1..Len(s) : s[i] = c /\ \A j \in 1..(i - 1) : s[j] # c
         IN  <<SubSeq(s, 1, k - 1)>> \o split(SubSeq(s, k + 1, Len(s)), c)

(***************************************************************************)
(* impl TstzRange                                                          *)
(***************************************************************************)
new(start, end) == [start |-> start, end |-> end]

clean_and_parse(date_str) ==
    CHOOSE r \in
        { parse_datetime(IF matches_count(s, "+") = 1 /\ ends_with(s, <<"+", "0", "0">>)
                         THEN s \o <<":", "0", "0">>
                         ELSE s)
          : s \in {strip_suffix(strip_prefix(date_str, <<"\"">>), <<"\"">>)} } : TRUE

\* parse_start with the test of the opening bracket turned around
parse_start_swapped(start_str) ==
    IF start_str = <<"(">> THEN Ok(Unbounded)
    ELSE IF Len(start_str) = 0 THEN Panic
    ELSE LET inclusive == starts_with(start_str, <<"(">>)
         IN  CHOOSE r \in
                 { IF ~dt.ok THEN Err
                   ELSE IF inclusive THEN Ok(Included(dt.dt)) ELSE Ok(Excluded(dt.dt))
                   : dt \in {clean_and_parse(SubSeq(start_str, 2, Len(start_str)))} }
                 : TRUE

\* lines 63-75: the start bound of from_string, as a Result; slicing the empty
\* part at [1..] panics
parse_start(start_str) ==
    IF start_str = <<"(">> THEN Ok(Unbounded)
    ELSE IF Len(start_str) = 0 THEN Panic
    ELSE LET inclusive == starts_with(start_str, <<"[">>)
         IN  CHOOSE r \in
                 { IF ~dt.ok THEN Err
                   ELSE IF inclusive THEN Ok(Included(dt.dt)) ELSE Ok(Excluded(dt.dt))
                   : dt \in {clean_and_parse(SubSeq(start_str, 2, Len(start_str)))} }
                 : TRUE

\* lines 77-89: the end bound; for the empty part len() - 1 overflows (a panic
\* in a debug build) or wraps to an end index out of range (a panic in release)
parse_end(end_str) ==
    IF end_str = <<")">> THEN Ok(Unbounded)
    ELSE IF Len(end_str) = 0 THEN Panic
    ELSE LET inclusive == ends_with(end_str, <<"]">>)
         IN  CHOOSE r \in
                 { IF ~dt.ok THEN Err
                   ELSE IF inclusive THEN Ok(Included(dt.dt)) ELSE Ok(Excluded(dt.dt))
                   : dt \in {clean_and_parse(SubSeq(end_str, 1, Len(end_str) - 1))} }
                 : TRUE

\* a bound that is read carries it as Ok's payload; the first part that fails
\* ends the call, so the end part is not looked at after a start part in error
from_string(s) ==
    CHOOSE r \in
      { IF Len(parts) # 2 THEN Err
        ELSE CHOOSE r2 \in
          { IF st.tag # "Ok" THEN st
            ELSE CHOOSE r3 \in
              { IF en.tag # "Ok" THEN en
                ELSE Ok([start |-> st.range, end |-> en.range])
                : en \in {parse_end(parts[2])} } : TRUE
            : st \in {parse_start(parts[1])} } : TRUE
        : parts \in {split(s, ",")} } : TRUE

\* from_datetime_pair with the end bound closed
from_datetime_pair_closed(start, end) == new(Included(start), Included(end))

from_datetime_pair(start, end) == new(Included(start), Excluded(end))

\* contains_timestamp with <= for < at the end of [start, end)
contains_timestamp_closed_end(self, timestamp) ==
    LET s == self.start
        e == self.end
    IN  CASE s.kind = "Included" /\ e.kind = "Included" ->
                 Le(s.v, timestamp) /\ Le(timestamp, e.v)
          [] s.kind = "Included" /\ e.kind = "Excluded" ->
                 Le(s.v, timestamp) /\ Le(timestamp, e.v)
          [] s.kind = "Excluded" /\ e.kind = "Included" ->
                 Lt(s.v, timestamp) /\ Le(timestamp, e.v)
          [] s.kind = "Excluded" /\ e.kind = "Excluded" ->
                 Lt(s.v, timestamp) /\ Lt(timestamp, e.v)
          [] s.kind = "Included" /\ e.kind = "Unbounded" -> Le(s.v, timestamp)
          [] s.kind = "Excluded" /\ e.kind = "Unbounded" -> Lt(s.v, timestamp)
          [] s.kind = "Unbounded" /\ e.kind = "Included" -> Le(timestamp, e.v)
          [] s.kind = "Unbounded" /\ e.kind = "Excluded" -> Lt(timestamp, e.v)
          [] s.kind = "Unbounded" /\ e.kind = "Unbounded" -> TRUE

\* contains_timestamp with || for && between the two tests of (start, end)
contains_timestamp_either(self, timestamp) ==
    LET s == self.start
        e == self.end
    IN  CASE s.kind = "Included" /\ e.kind = "Included" ->
                 Le(s.v, timestamp) /\ Le(timestamp, e.v)
          [] s.kind = "Included" /\ e.kind = "Excluded" ->
                 Le(s.v, timestamp) /\ Lt(timestamp, e.v)
          [] s.kind = "Excluded" /\ e.kind = "Included" ->
                 Lt(s.v, timestamp) /\ Le(timestamp, e.v)
          [] s.kind = "Excluded" /\ e.kind = "Excluded" ->
                 Lt(s.v, timestamp) \/ Lt(timestamp, e.v)
          [] s.kind = "Included" /\ e.kind = "Unbounded" -> Le(s.v, timestamp)
          [] s.kind = "Excluded" /\ e.kind = "Unbounded" -> Lt(s.v, timestamp)
          [] s.kind = "Unbounded" /\ e.kind = "Included" -> Le(timestamp, e.v)
          [] s.kind = "Unbounded" /\ e.kind = "Excluded" -> Lt(timestamp, e.v)
          [] s.kind = "Unbounded" /\ e.kind = "Unbounded" -> TRUE

contains_timestamp(self, timestamp) ==
    LET s == self.start
        e == self.end
    IN  CASE s.kind = "Included" /\ e.kind = "Included" ->
                 Le(s.v, timestamp) /\ Le(timestamp, e.v)
          [] s.kind = "Included" /\ e.kind = "Excluded" ->
                 Le(s.v, timestamp) /\ Lt(timestamp, e.v)
          [] s.kind = "Excluded" /\ e.kind = "Included" ->
                 Lt(s.v, timestamp) /\ Le(timestamp, e.v)
          [] s.kind = "Excluded" /\ e.kind = "Excluded" ->
                 Lt(s.v, timestamp) /\ Lt(timestamp, e.v)
          [] s.kind = "Included" /\ e.kind = "Unbounded" -> Le(s.v, timestamp)
          [] s.kind = "Excluded" /\ e.kind = "Unbounded" -> Lt(s.v, timestamp)
          [] s.kind = "Unbounded" /\ e.kind = "Included" -> Le(timestamp, e.v)
          [] s.kind = "Unbounded" /\ e.kind = "Excluded" -> Lt(timestamp, e.v)
          [] s.kind = "Unbounded" /\ e.kind = "Unbounded" -> TRUE

start(self) == IF self.start.kind = "Unbounded" THEN None ELSE Some(self.start.v)

end(self) == IF self.end.kind = "Unbounded" THEN None ELSE Some(self.end.v)

is_start_inclusive(self) == self.start.kind = "Included"

is_end_inclusive(self) == self.end.kind = "Included"

(***************************************************************************)
(* impl Display for TstzRange                                              *)
(***************************************************************************)
\* Display with "(" written for an inclusive start too
to_string_paren(self) ==
    LET st == CASE self.start.kind = "Included" -> <<"(">> \o to_rfc3339(self.start.v)
                [] self.start.kind = "Excluded" -> <<"(">> \o to_rfc3339(self.start.v)
                [] self.start.kind = "Unbounded" -> <<"(">>
        en == CASE self.end.kind = "Included" -> to_rfc3339(self.end.v) \o <<"]">>
                [] self.end.kind = "Excluded" -> to_rfc3339(self.end.v) \o <<")">>
                [] self.end.kind = "Unbounded" -> <<")">>
    IN  st \o <<",">> \o en

to_string(self) ==
    LET st == CASE self.start.kind = "Included" -> <<"[">> \o to_rfc3339(self.start.v)
                [] self.start.kind = "Excluded" -> <<"(">> \o to_rfc3339(self.start.v)
                [] self.start.kind = "Unbounded" -> <<"(">>
        en == CASE self.end.kind = "Included" -> to_rfc3339(self.end.v) \o <<"]">>
                [] self.end.kind = "Excluded" -> to_rfc3339(self.end.v) \o <<")">>
                [] self.end.kind = "Unbounded" -> <<")">>
    IN  st \o <<",">> \o en

(***************************************************************************)
(* sea_orm::Value conversions                                              *)
(***************************************************************************)
\* Value::String(Some(Box::new(s))) and Value::String(None)
ValueString(opt) == [type |-> "String", v |-> opt]

\* impl From<TstzRange> for Value
value_from(x) == ValueString(Some(to_string(x)))

\* try_from taking the payload of any non-null scalar
try_from_any_some(v) ==
    IF v.v.some THEN from_string(v.v.v) ELSE Err

\* impl ValueType for TstzRange
try_from(v) ==
    IF v.type = "String" /\ v.v.some THEN from_string(v.v.v) ELSE Err

(***************************************************************************)
(* Inputs                                                                  *)
(***************************************************************************)
Instant(day, secs, frac) == [day |-> day, secs |-> secs, frac |-> frac]

\* how many of the sample instants the callers use
MaxInstants == 4

\* how many comma-separated parts a received literal has at most
MaxParts == 3

\* 2024-01-01T00:00:00Z, 2024-01-02T00:00:00Z, +10000-01-01T12:30:15.250Z,
\* -0001-12-31T23:59:60.000000001Z (a leap second), 2024-02-29T23:59:59.999999Z,
\* 1970-01-01T00:00:00.5Z, 9999-12-31T23:59:59Z
SampleInstants ==
    << Instant(19723, 0, 0),
       Instant(19724, 0, 0),
       Instant(2932897, 45015, 250000000),
       Instant(-719529, 86399, 1000000001),
       Instant(19782, 86399, 999999000),
       Instant(0, 0, 500000000),
       Instant(2932896, 86399, 0) >>

Instants ==
    {SampleInstants[i] : i \in 1..(IF MaxInstants < Len(SampleInstants)
                                   THEN MaxInstants ELSE Len(SampleInstants))}

Bounds == {Unbounded} \cup {Included(v) : v \in Instants}
                      \cup {Excluded(v) : v \in Instants}

Ranges == {new(s, e) : s \in Bounds, e \in Bounds}

\* the parts of the literals a caller may hand to from_string, T being the
\* text of the first sample instant: "", "(", ")", "[T", "(T", "T]", "T)",
\* "xT", "Tx", "[x", "x]"
InputParts ==
    LET T == to_rfc3339(SampleInstants[1])
    IN  { <<>>, <<"(">>, <<")">>,
          <<"[">> \o T, <<"(">> \o T, T \o <<"]">>, T \o <<")">>,
          <<"x">> \o T, T \o <<"x">>, <<"[", "x">>, <<"x", "]">> }

\* the parts joined by commas
RECURSIVE Join(_)
Join(ps) ==
    IF Len(ps) = 1 THEN ps[1] ELSE ps[1] \o <<",">> \o Join(Tail(ps))

InputLiterals ==
    UNION { {Join(ps) : ps \in [1..n -> InputParts]} : n \in 1..MaxParts }

\* how a sender may write an instant differently: a double quote before it,
\* one after it, the offset as "+00"
Spellings == [lead : BOOLEAN, trail : BOOLEAN, compact : BOOLEAN]

Respell(instant_text, sp) ==
    (IF sp.lead THEN <<"\"">> ELSE <<>>)
    \o (IF sp.compact /\ ends_with(instant_text, UtcOffsetText)
        THEN SubSeq(instant_text, 1, Len(instant_text) - 3) ELSE instant_text)
    \o (IF sp.trail THEN <<"\"">> ELSE <<>>)

\* a canonical literal with the instant of each bounded side respelled
RespellStart(st, sp) ==
    IF st = <<"(">> THEN st ELSE <<st[1]>> \o Respell(SubSeq(st, 2, Len(st)), sp)

RespellEnd(en, sp) ==
    IF en = <<")">> THEN en
    ELSE Respell(SubSeq(en, 1, Len(en) - 1), sp) \o <<en[Len(en)]>>

VariantOf(literal, ssp, esp) ==
    CHOOSE r \in
        { RespellStart(parts[1], ssp) \o <<",">> \o RespellEnd(parts[2], esp)
          : parts \in {split(literal, ",")} } : TRUE

\* scalars of other shapes than a non-null string (a payload is written as text)
OtherScalars ==
    { ValueString(None),
      [type |-> "Int", v |-> Some(<<"1">>)],
      [type |-> "Int", v |-> None],
      [type |-> "Bool", v |-> Some(<<"t">>)],
      [type |-> "Bytes", v |-> Some(to_string(new(Unbounded, Unbounded)))] }

(***************************************************************************)
(* The state: one caller's use of the library.  op is the operation that   *)
(* ran last; the caller holds a range, a text and a scalar, each with the  *)
(* way it got it, the timestamp it asked about, and the answer ret.        *)
(***************************************************************************)
VARIABLES op, made, range, text, value, timestamp, ret

vars == <<op, made, range, text, value, timestamp, ret>>

NoRange == [start |-> [kind |-> "None"], end |-> [kind |-> "None"]]
NoMade == [by |-> "none"]
NoText == [src |-> "none", s |-> <<>>, base |-> <<>>]
NoValue == [type |-> "None"]
NoInstant == [day |-> 0, secs |-> 0, frac |-> -1]
NoRet == [tag |-> "None"]

Init ==
    /\ op = "init"
    /\ made = NoMade
    /\ range = NoRange
    /\ text = NoText
    /\ value = NoValue
    /\ timestamp = NoInstant
    /\ ret = NoRet

\* TstzRange::new(s, e)
New(s, e) ==
    /\ op = "init"
    /\ op' = "new"
    /\ made' = [by |-> "new", a |-> s, b |-> e]
    /\ range' = new(s, e)
    /\ UNCHANGED <<text, value, timestamp, ret>>

\* TstzRange::from_datetime_pair(a, b)
FromDatetimePair(a, b) ==
    /\ op = "init"
    /\ op' = "from_datetime_pair"
    /\ made' = [by |-> "pair", a |-> a, b |-> b]
    /\ range' = from_datetime_pair(a, b)
    /\ UNCHANGED <<text, value, timestamp, ret>>

HoldsRange == op \in {"new", "from_datetime_pair"}

\* start(), end(), is_start_inclusive(), is_end_inclusive() of the range held
Accessors ==
    /\ HoldsRange
    /\ op' = "accessors"
    /\ ret' = [tag |-> "Fields",
               start |-> start(range), end |-> end(range),
               is_start_inclusive |-> is_start_inclusive(range),
               is_end_inclusive |-> is_end_inclusive(range)]
    /\ UNCHANGED <<made, range, text, value, timestamp>>

\* range.contains_timestamp(&t)
ContainsTimestamp(t) ==
    /\ HoldsRange
    /\ op' = "contains_timestamp"
    /\ timestamp' = t
    /\ ret' = [tag |-> "Bool", b |-> contains_timestamp(range, t)]
    /\ UNCHANGED <<made, range, text, value>>

\* range.to_string()
Display ==
    /\ HoldsRange
    /\ op' = "to_string"
    /\ text' = [src |-> "to_string", s |-> to_string(range), base |-> <<>>]
    /\ UNCHANGED <<made, range, value, timestamp, ret>>

\* the literal comes back from a sender that spells the instants its own way
Variant(ssp, esp) ==
    /\ op = "to_string"
    /\ op' = "variant"
    /\ text' = [src |-> "variant", s |-> VariantOf(text.s, ssp, esp), base |-> text.s]
    /\ UNCHANGED <<made, range, value, timestamp, ret>>

\* a literal arrives from outside
Literal(s) ==
    /\ op = "init"
    /\ op' = "literal"
    /\ text' = [src |-> "literal", s |-> s, base |-> <<>>]
    /\ UNCHANGED <<made, range, value, timestamp, ret>>

\* TstzRange::from_string(&text)
FromString ==
    /\ op \in {"to_string", "variant", "literal"}
    /\ op' = "from_string"
    /\ ret' = from_string(text.s)
    /\ UNCHANGED <<made, range, text, value, timestamp>>

\* Value::from(range)
IntoValue ==
    /\ HoldsRange
    /\ op' = "into_value"
    /\ value' = value_from(range)
    /\ UNCHANGED <<made, range, text, timestamp, ret>>

\* a scalar of another shape arrives from outside
Scalar(v) ==
    /\ op = "init"
    /\ op' = "scalar"
    /\ value' = v
    /\ UNCHANGED <<made, range, text, timestamp, ret>>

\* <TstzRange as ValueType>::try_from(value)
TryFrom ==
    /\ op \in {"into_value", "scalar"}
    /\ op' = "try_from"
    /\ ret' = try_from(value)
    /\ UNCHANGED <<made, range, text, value, timestamp>>

\* the caller drops what it holds (after a panic: the next caller starts)
Drop ==
    /\ op \in {"accessors", "contains_timestamp", "from_string", "try_from"}
    /\ op' = "init"
    /\ made' = NoMade
    /\ range' = NoRange
    /\ text' = NoText
    /\ value' = NoValue
    /\ timestamp' = NoInstant
    /\ ret' = NoRet

Next ==
    \/ \E s \in Bounds, e \in Bounds : New(s, e)
    \/ \E a \in Instants, b \in Instants : FromDatetimePair(a, b)
    \/ Accessors
    \/ \E t \in Instants : ContainsTimestamp(t)
    \/ Display
    \/ \E ssp \in Spellings, esp \in Spellings : Variant(ssp, esp)
    \/ \E s \in InputLiterals : Literal(s)
    \/ FromString
    \/ IntoValue
    \/ \E v \in OtherScalars : Scalar(v)
    \/ TryFrom
    \/ Drop

Spec == Init /\ [][Next]_vars

(***************************************************************************)
(* Properties                                                              *)
(***************************************************************************)
Parts == split(text.s, ",")

FullOffset(instant_text) == ends_with(instant_text, <<"+", "0", "0", ":", "0", "0">>)

\* C1: what to_string wrote, from_string reads back as the same range, for
\* every combination of bound kinds
C1_RoundTrip ==
    (op = "from_string" /\ text.src = "to_string") => ret = Ok(range)

C1_Witness ==
    /\ op = "from_string" /\ text.src = "to_string" /\ ret.tag = "Ok"
    /\ range.start.kind = "Excluded" /\ range.end.kind = "Included"
    /\ range.start.v = SampleInstants[3]

\* the first character of a bounded start part is none of "[" "(", or the last
\* character of a bounded end part is none of "]" ")"
BadDelimiter(st, en) ==
    \/ st # <<"(">> /\ Len(st) > 0 /\ st[1] \notin {"[", "("}
    \/ en # <<")">> /\ Len(en) > 0 /\ en[Len(en)] \notin {"]", ")"}

\* C2: a two-part literal with a delimiter character other than ( ) [ ] on a
\* bounded side is answered with the error, whatever the instant text (stated
\* for the literals whose two parts are both non-empty: an empty part is the
\* case of C3)
C2_BadDelimiterIsError ==
    (op = "from_string" /\ Len(Parts) = 2
     /\ Len(Parts[1]) > 0 /\ Len(Parts[2]) > 0
     /\ BadDelimiter(Parts[1], Parts[2]))
        => ret = Err

\* C3: from_string answers every text with Ok or with the error; it never
\* aborts
C3_Total ==
    op = "from_string" => ret.tag \in {"Ok", "Err"}

\* C4: a canonical literal that is accepted is still accepted, and read as
\* the same range, with quotes around an instant and with the compact offset
C4_VariantsAccepted ==
    (op = "from_string" /\ text.src = "variant" /\ from_string(text.base).tag = "Ok")
        => ret = from_string(text.base)

AfterStart(r, t) ==
    \/ r.start.kind = "Unbounded"
    \/ Lt(r.start.v, t)
    \/ t = r.start.v /\ r.start.kind = "Included"

BeforeEnd(r, t) ==
    \/ r.end.kind = "Unbounded"
    \/ Lt(t, r.end.v)
    \/ t = r.end.v /\ r.end.kind = "Included"

HalfOpenHeld == range.start.kind = "Included" /\ range.end.kind = "Excluded"

Membership ==
    op = "contains_timestamp"
        => /\ ret.tag = "Bool"
           /\ ret.b = (AfterStart(range, timestamp) /\ BeforeEnd(range, timestamp))

\* C5 as stated: the membership rule for all nine combinations, and for
\* [A, B): true at A, false at B, true strictly between
C5_Contains ==
    /\ Membership
    /\ (op = "contains_timestamp" /\ HalfOpenHeld)
           => /\ timestamp = range.start.v => ret.b
              /\ timestamp = range.end.v => ~ret.b
              /\ (Lt(range.start.v, timestamp) /\ Lt(timestamp, range.end.v)) => ret.b

\* C5 amended: the same, with "true at A" for the ranges [A, B) with A < B
C5_ContainsOrdered ==
    /\ Membership
    /\ (op = "contains_timestamp" /\ HalfOpenHeld)
           => /\ (timestamp = range.start.v /\ Lt(range.start.v, range.end.v)) => ret.b
              /\ timestamp = range.end.v => ~ret.b
              /\ (Lt(range.start.v, timestamp) /\ Lt(timestamp, range.end.v)) => ret.b

C5_Witness ==
    /\ op = "contains_timestamp" /\ HalfOpenHeld
    /\ timestamp = range.start.v /\ Lt(range.start.v, range.end.v)
    /\ ret.b

\* "[2024-01-01T00:00:00+00:00,2024-01-02T00:00:00+00:00)"
ScenarioText ==
    << "[", "2", "0", "2", "4", "-", "0", "1", "-", "0", "1", "T",
       "0", "0", ":", "0", "0", ":", "0", "0", "+", "0", "0", ":", "0", "0", ",",
       "2", "0", "2", "4", "-", "0", "1", "-", "0", "2", "T",
       "0", "0", ":", "0", "0", ":", "0", "0", "+", "0", "0", ":", "0", "0", ")" >>

\* C6: from_datetime_pair(a, b) is [a, b): Included(a), Excluded(b), the
\* accessors say so, and the text is "[" a "," b ")" with the full offset
C6_HalfOpen ==
    made.by = "pair"
        => /\ range = [start |-> Included(made.a), end |-> Excluded(made.b)]
           /\ op = "accessors"
                  => ret = [tag |-> "Fields",
                            start |-> Some(made.a), end |-> Some(made.b),
                            is_start_inclusive |-> TRUE, is_end_inclusive |-> FALSE]
           /\ op = "to_string"
                  => /\ text.s = <<"[">> \o to_rfc3339(made.a) \o <<",">>
                                 \o to_rfc3339(made.b) \o <<")">>
                     /\ FullOffset(SubSeq(Parts[1], 2, Len(Parts[1])))
                     /\ FullOffset(SubSeq(Parts[2], 1, Len(Parts[2]) - 1))
                     /\ (made.a = Instant(19723, 0, 0) /\ made.b = Instant(19724, 0, 0))
                            => text.s = ScenarioText

C6_Witness ==
    /\ op = "to_string" /\ made.by = "pair"
    /\ made.a = Instant(19723, 0, 0) /\ made.b = Instant(19724, 0, 0)

StartToken(b) ==
    CASE b.kind = "Unbounded" -> <<"(">>
      [] b.kind = "Included" -> <<"[">> \o to_rfc3339(b.v)
      [] b.kind = "Excluded" -> <<"(">> \o to_rfc3339(b.v)

EndToken(b) ==
    CASE b.kind = "Unbounded" -> <<")">>
      [] b.kind = "Included" -> to_rfc3339(b.v) \o <<"]">>
      [] b.kind = "Excluded" -> to_rfc3339(b.v) \o <<")">>

\* C7: the text of a range is its start token, one comma, its end token; an
\* instant is written with "+00:00"; no other range has the same text
C7_Canonical ==
    op = "to_string"
        => /\ matches_count(text.s, ",") = 1
           /\ Parts = <<StartToken(range.start), EndToken(range.end)>>
           /\ range.start.kind # "Unbounded"
                  => FullOffset(SubSeq(Parts[1], 2, Len(Parts[1])))
           /\ range.end.kind # "Unbounded"
                  => FullOffset(SubSeq(Parts[2], 1, Len(Parts[2]) - 1))
           /\ \A r \in Ranges : (to_string(r) = text.s) <=> (r = range)

C7_Witness ==
    /\ op = "to_string" /\ made.by = "new"
    /\ range.start.kind = "Included" /\ range.end.kind = "Unbounded"
    /\ text.s[1] = "["

\* C8: Value::from(r) is the non-null string of r's text, try_from reads it
\* back as r, and try_from of a scalar of another shape is the error
C8_ValueRoundTrip ==
    /\ op = "into_value" => value = ValueString(Some(to_string(range)))
    /\ (op = "try_from" /\ made.by # "none") => ret = Ok(range)
    /\ (op = "try_from" /\ ~(value.type = "String" /\ value.v.some)) => ret = Err

C8_Witness ==
    /\ op = "try_from" /\ made.by = "new" /\ ret.tag = "Ok"
    /\ range.start.kind = "Included" /\ range.end.kind = "Excluded"

\* the text of a part's instant: the part without its delimiter character
StartInstantText(st) == SubSeq(st, 2, Len(st))
EndInstantText(en) == SubSeq(en, 1, Len(en) - 1)

\* a bounded side (a part with a delimiter character, not the lone "(" or ")")
\* whose instant text does not parse
Unparseable(st, en) ==
    \/ st # <<"(">> /\ Len(st) > 0 /\ ~clean_and_parse(StartInstantText(st)).ok
    \/ en # <<")">> /\ Len(en) > 0 /\ ~clean_and_parse(EndInstantText(en)).ok

\* C9: a text without exactly one comma, and a text with a bounded side whose
\* instant text does not parse, are answered with the error, whatever the
\* other side is
C9_MalformedIsError ==
    (op = "from_string"
     /\ (Len(Parts) # 2 \/ Unparseable(Parts[1], Parts[2])))
        => ret = Err

Reversed(r) ==
    /\ r.start.kind # "Unbounded" /\ r.end.kind # "Unbounded"
    /\ Lt(r.end.v, r.start.v)

\* C10: new takes any two bounds as they are, also a start after the end, and
\* such a range contains no instant
C10_ReversedIsEmpty ==
    /\ op = "new" => range = [start |-> made.a, end |-> made.b]
    /\ (op = "contains_timestamp" /\ Reversed(range)) => ~ret.b

C10_Witness ==
    /\ op = "contains_timestamp" /\ made.by = "new" /\ Reversed(range)
    /\ Le(range.end.v, timestamp) /\ Le(timestamp, range.start.v)
    /\ ~ret.b

=============================================================================
